---- MODULE Spec2Model ----
(***************************************************************************)
(* Model of the example programs of tfjs-examples.                         *)
(*                                                                         *)
(* Part 1: snake-dqn/snake_game.js, class SnakeGame.  A game is a board    *)
(* (height_, width_), a snake (snakeSquares_, head first) and fruits       *)
(* (fruitSquares_).  Init is the state right after the constructor, Step   *)
(* is one call of step(action).                                            *)
(*                                                                         *)
(* JavaScript values.  A coordinate is a number, undefined or NaN: step    *)
(* with a value that is none of the four actions leaves newHeadY/newHeadX  *)
(* undefined, arithmetic on undefined gives NaN, and makeFruits_ reads     *)
(* past the end of an empty array.  Numbers are modelled by integers and   *)
(* the two non-numbers by two integers no coordinate can take.             *)
(*                                                                         *)
(* Each part has its own specification over its own variables; the         *)
(* variables of the other parts then stay at the idle values of Idle...    *)
(***************************************************************************)
EXTENDS Integers, Sequences, FiniteSets, TLC

\* ---- bounds of the model ----
\* the largest board, in cells: height * width <= MaxCells
MaxCells == 4
MaxNumFruits == 2
MaxInitLen == 4

\* ---- program constants ----
NO_FRUIT_REWARD == 0
FRUIT_REWARD == 1
ACTION_LEFT == 0
ACTION_UP == 1
ACTION_RIGHT == 2
ACTION_DOWN == 3
\* a value that is none of the four action symbols
ACTION_INVALID == 4

\* ---- JavaScript values ----
\* the value undefined
Undefined == -98
\* the value NaN
NaN == -99

IsNumber(v) == v # Undefined /\ v # NaN

\* v + d of JavaScript: undefined and NaN give NaN
Plus(v, d) == IF IsNumber(v) THEN v + d ELSE NaN

\* a < b of JavaScript: false when an operand is undefined or NaN
LessThan(a, b) == IsNumber(a) /\ IsNumber(b) /\ a < b

\* a >= b of JavaScript: false when an operand is undefined or NaN
GreaterEq(a, b) == IsNumber(a) /\ IsNumber(b) /\ a >= b

\* a === b of JavaScript: NaN equals nothing, undefined equals undefined
StrictEq(a, b) == a # NaN /\ b # NaN /\ a = b

\* the three values the local variable done of step can hold
DoneOf(b) == IF b THEN "true" ELSE "false"

Actions == {ACTION_LEFT, ACTION_UP, ACTION_RIGHT, ACTION_DOWN, ACTION_INVALID}

ValidActions == {ACTION_LEFT, ACTION_UP, ACTION_RIGHT, ACTION_DOWN}

VARIABLES height_, width_, numFruits_, initLen_, snakeSquares_, fruitSquares_,
          lastCall, everDone

\* the constructor call of SnakeGame: its args and how it ended
VARIABLES newArgs, newResult

snakeVars == <<height_, width_, numFruits_, initLen_, snakeSquares_,
               fruitSquares_, lastCall, everDone, newArgs, newResult>>

\* a ReplayMemory: its capacity, its resident items (oldest first), every
\* item appended so far, and the last call with what it returned
VARIABLES maxLength, buffer, appendedItems, lastReplay

replayVars == <<maxLength, buffer, appendedItems, lastReplay>>

\* a CartPole: its four state variables, the number of update calls so far,
\* and the last update call with what it returned
VARIABLES cartPole, numUpdates, lastUpdate

cartVars == <<cartPole, numUpdates, lastUpdate>>

\* a call of PolicyNetwork.train: its arguments, its position, the loop
\* counters i and j, its local arrays and records, the onGameEnd
\* notifications so far, the update calls of each game so far with the value
\* the last one returned, the arguments of scaleAndAverageGradients, and the
\* value returned
VARIABLES trainArgs, trainPc, gameIndex, stepIndex, gameRewards,
          gameGradients, allGradients, allRewards, gameSteps, gameEnds,
          gameUpdates, scaleCall, trainReturn

trainVars == <<trainArgs, trainPc, gameIndex, stepIndex, gameRewards,
               gameGradients, allGradients, allRewards, gameSteps, gameEnds,
               gameUpdates, scaleCall, trainReturn>>

\* a call of writeConvLayerFilters: its arguments, its position, the
\* parameter numFilters, the loop counter i, the array filePaths, and the
\* filter indices handed to inputGradientAscent so far
VARIABLES filterArgs, filterPc, numFilters, filterIndex, filePaths,
          processedFilters

filterVars == <<filterArgs, filterPc, numFilters, filterIndex, filePaths,
                processedFilters>>

\* a run of the ACGAN trainer: its arguments, its position, the loop
\* counters epoch and batch (batchIndex), the slices taken in the current epoch, the
\* numbers of trainOnBatch calls on the discriminator and on the combined
\* model in the current epoch, and the generator.save calls so far
VARIABLES ganArgs, ganPc, epoch, batchIndex, epochBatches, dTrained, gTrained,
          saves

ganVars == <<ganArgs, ganPc, epoch, batchIndex, epochBatches, dTrained,
             gTrained,
             saves>>

\* a run of the object-detection training script: the layer names of the
\* truncated base, their trainable flags, fineTuningLayers (indices of base
\* layers), its position, the loop counter, the epochs of the fit under way,
\* and the compile, fit and save calls completed so far
VARIABLES baseLayers, trainable, fineTuningLayers, detectionPc, layerCursor,
          fitEpoch, detectionLog

detectionVars == <<baseLayers, trainable, fineTuningLayers, detectionPc,
                   layerCursor, fitEpoch, detectionLog>>

\* a call of JenaWeatherData.getColumnData: the number of rows, the
\* arguments, its position, the loop counter i, the array out, and the row
\* indices read so far
VARIABLES numRows, columnArgs, columnPc, rowCursor, out, rowsRead

jenaVars == <<numRows, columnArgs, columnPc, rowCursor, out, rowsRead>>

scriptVars == <<trainVars, filterVars, ganVars, detectionVars, jenaVars>>

vars == <<snakeVars, replayVars, cartVars, scriptVars>>

\* no SnakeGame in this specification
IdleSnake ==
  /\ height_ = 0 /\ width_ = 0 /\ numFruits_ = 0 /\ initLen_ = 0
  /\ snakeSquares_ = <<>> /\ fruitSquares_ = <<>>
  /\ lastCall = <<>> /\ everDone = FALSE
  /\ newArgs = <<>> /\ newResult = "none"

\* no ReplayMemory in this specification
IdleReplay ==
  /\ maxLength = 0 /\ buffer = <<>> /\ appendedItems = <<>>
  /\ lastReplay = <<>>

\* no CartPole in this specification
IdleCart ==
  /\ cartPole = <<>> /\ numUpdates = 0 /\ lastUpdate = <<>>

\* no PolicyNetwork.train call in this specification
IdleTrain ==
  /\ trainArgs = <<>> /\ trainPc = "none"
  /\ gameIndex = 0 /\ stepIndex = 0
  /\ gameRewards = <<>> /\ gameGradients = <<>>
  /\ allGradients = <<>> /\ allRewards = <<>>
  /\ gameSteps = <<>> /\ gameEnds = <<>> /\ gameUpdates = <<>>
  /\ scaleCall = <<>> /\ trainReturn = <<>>

\* no writeConvLayerFilters call in this specification
IdleFilters ==
  /\ filterArgs = <<>> /\ filterPc = "none"
  /\ numFilters = 0 /\ filterIndex = 0
  /\ filePaths = <<>> /\ processedFilters = <<>>

\* no ACGAN trainer in this specification
IdleGan ==
  /\ ganArgs = <<>> /\ ganPc = "none"
  /\ epoch = 0 /\ batchIndex = 0 /\ epochBatches = <<>>
  /\ dTrained = 0 /\ gTrained = 0 /\ saves = <<>>

\* no object-detection training script in this specification
IdleDetection ==
  /\ baseLayers = <<>> /\ trainable = <<>> /\ fineTuningLayers = <<>>
  /\ detectionPc = "none" /\ layerCursor = 0 /\ fitEpoch = 0
  /\ detectionLog = <<>>

\* no JenaWeatherData in this specification
IdleJena ==
  /\ numRows = 0 /\ columnArgs = <<>> /\ columnPc = "none"
  /\ rowCursor = 0 /\ out = <<>> /\ rowsRead = <<>>

\* none of the scripts and callers of parts 4 to 8 in this specification
IdleScripts ==
  IdleTrain /\ IdleFilters /\ IdleGan /\ IdleDetection /\ IdleJena

\* ---- getRandomInteger ----
\* The values Math.floor((max - min) * Math.random()) + min can take for
\* Math.random() in [0, 1): min..max-1 when max > min, min when max = min,
\* and max..min when max < min (the product is then in (max-min, 0]).
getRandomInteger(min, max) ==
  IF max > min THEN min .. (max - 1)
  ELSE IF max = min THEN {min}
  ELSE max .. min

\* ---- initializeSnake_ ----
\* the straight snake whose head is [y, x], head first
StraightSnake(y, x, initLen) == [i \in 1 .. initLen |-> <<y, x - (i - 1)>>]

initializeSnake_(height, width, initLen) ==
  { StraightSnake(y, x, initLen) :
      y \in getRandomInteger(0, height),
      x \in getRandomInteger(initLen - 1, width) }

\* ---- arrays ----
\* arr.indexOf(v) as a 1-based position, 0 when v is not in arr
IndexOf(arr, v) ==
  IF \E k \in 1 .. Len(arr) : StrictEq(arr[k], v)
  THEN CHOOSE k \in 1 .. Len(arr) :
         /\ StrictEq(arr[k], v)
         /\ \A j \in 1 .. (k - 1) : ~StrictEq(arr[j], v)
  ELSE 0

\* arr without its element at 1-based position k
RemoveAt(arr, k) == SubSeq(arr, 1, k - 1) \o SubSeq(arr, k + 1, Len(arr))

\* arr.splice(arr.indexOf(v), 1): indexOf gives -1 when v is absent, and
\* splice(-1, 1) removes the last element (nothing from an empty array)
SpliceIndexOf(arr, v) ==
  IF IndexOf(arr, v) # 0 THEN RemoveAt(arr, IndexOf(arr, v))
  ELSE IF Len(arr) > 0 THEN SubSeq(arr, 1, Len(arr) - 1)
  ELSE arr

\* ---- makeFruits_ ----
\* yx[0] * width + yx[1]
SquareIndex(yx, width) ==
  IF IsNumber(yx[1]) /\ IsNumber(yx[2]) THEN yx[1] * width + yx[2] ELSE NaN

\* all board indices in row-major order
AllIndices(height, width) == [k \in 1 .. (height * width) |-> k - 1]

RECURSIVE RemoveSnake(_, _, _, _)
\* the forEach over snakeSquares_ from position i on
RemoveSnake(emptyIndices, squares, i, width) ==
  IF i > Len(squares) THEN emptyIndices
  ELSE RemoveSnake(SpliceIndexOf(emptyIndices, SquareIndex(squares[i], width)),
                   squares, i + 1, width)

EmptyIndices(squares, height, width) ==
  RemoveSnake(AllIndices(height, width), squares, 1, width)

\* emptyIndices[k] for a 0-based k: undefined past the end
ElementAt(arr, k) == IF k + 1 \in 1 .. Len(arr) THEN arr[k + 1] ELSE Undefined

\* [Math.floor(fruitIndex / width), fruitIndex % width]
FruitSquare(fruitIndex, width) ==
  IF IsNumber(fruitIndex)
  THEN <<fruitIndex \div width, fruitIndex % width>>
  ELSE <<NaN, NaN>>

RECURSIVE PlaceFruits(_, _, _, _, _)
\* the loop "for (let i = 0; i < numFruits; ++i)" from iteration i on: the
\* set of fruit arrays it can leave
PlaceFruits(emptyIndices, fruits, i, numFruits, width) ==
  IF i >= numFruits THEN {fruits}
  ELSE UNION {
    LET fruitIndex == ElementAt(emptyIndices, r)
    IN  PlaceFruits(IF numFruits > 1
                    THEN SpliceIndexOf(emptyIndices, fruitIndex)
                    ELSE emptyIndices,
                    Append(fruits, FruitSquare(fruitIndex, width)),
                    i + 1, numFruits, width)
    : r \in getRandomInteger(0, Len(emptyIndices)) }

\* the fruit arrays makeFruits_ can leave, for a snake and the fruits so far
makeFruits_(squares, fruits, height, width, numFruitsWanted) ==
  LET numFruits == numFruitsWanted - Len(fruits)
  IN  IF numFruits <= 0 THEN {fruits}
      ELSE PlaceFruits(EmptyIndices(squares, height, width), fruits, 0,
                       numFruits, width)

\* ---- constructor ----
Init ==
  /\ height_ \in 1 .. MaxCells
  /\ width_ \in 1 .. (MaxCells \div height_)
  /\ numFruits_ \in 1 .. MaxNumFruits
  /\ initLen_ \in 1 .. MaxInitLen
  /\ snakeSquares_ \in initializeSnake_(height_, width_, initLen_)
  /\ fruitSquares_ \in
       makeFruits_(snakeSquares_, <<>>, height_, width_, numFruits_)
  /\ lastCall = <<>>
  /\ everDone = FALSE
  /\ newArgs = [height |-> height_, width |-> width_,
                numFruits |-> numFruits_, initLen |-> initLen_]
  /\ newResult = "returned"
  /\ IdleReplay /\ IdleCart /\ IdleScripts

\* ---- step ----
\* [newHeadY, newHeadX]
NewHead(head, action) ==
  CASE action = ACTION_LEFT -> <<head[1], Plus(head[2], -1)>>
    [] action = ACTION_UP -> <<Plus(head[1], -1), head[2]>>
    [] action = ACTION_RIGHT -> <<head[1], Plus(head[2], 1)>>
    [] action = ACTION_DOWN -> <<Plus(head[1], 1), head[2]>>
    [] OTHER -> <<Undefined, Undefined>>

\* OffBoard with done initialised to false instead of left undefined
OffBoardDefaultsFalse(newHead, action, height, width) ==
  CASE action = ACTION_LEFT -> DoneOf(LessThan(newHead[2], 0))
    [] action = ACTION_UP -> DoneOf(LessThan(newHead[1], 0))
    [] action = ACTION_RIGHT -> DoneOf(GreaterEq(newHead[2], width))
    [] action = ACTION_DOWN -> DoneOf(GreaterEq(newHead[1], height))
    [] OTHER -> "false"

\* done after the if-else chain on action
OffBoard(newHead, action, height, width) ==
  CASE action = ACTION_LEFT -> DoneOf(LessThan(newHead[2], 0))
    [] action = ACTION_UP -> DoneOf(LessThan(newHead[1], 0))
    [] action = ACTION_RIGHT -> DoneOf(GreaterEq(newHead[2], width))
    [] action = ACTION_DOWN -> DoneOf(GreaterEq(newHead[1], height))
    [] OTHER -> "undefined"

\* HitsBody with the loop started at i = 2: the cell behind the head is
\* not tested
HitsBodySkipsNeck(squares, newHead) ==
  \E i \in 3 .. Len(squares) :
    StrictEq(squares[i][1], newHead[1]) /\ StrictEq(squares[i][2], newHead[2])

\* the loop over snakeSquares_[1..] sets done
HitsBody(squares, newHead) ==
  \E i \in 2 .. Len(squares) :
    StrictEq(squares[i][1], newHead[1]) /\ StrictEq(squares[i][2], newHead[2])

\* done when step reaches "if (done)"
StepDone(squares, action, height, width) ==
  IF HitsBody(squares, NewHead(squares[1], action)) THEN "true"
  ELSE OffBoard(NewHead(squares[1], action), action, height, width)

\* MoveSnake with shift() in place of pop(): the old head is dropped
MoveSnakeDropsHead(squares, newHead) ==
  <<newHead>> \o SubSeq(squares, 2, Len(squares))

\* MoveSnake without the pop(): the snake grows by one cell
MoveSnakeNoPop(squares, newHead) == <<newHead>> \o squares

\* snakeSquares_.pop(); snakeSquares_.unshift([newHeadY, newHeadX])
MoveSnake(squares, newHead) ==
  <<newHead>> \o SubSeq(squares, 1, Len(squares) - 1)

\* the first i with fruitSquares_[i] on the new head, 1-based; 0 when none
EatenIndex(fruits, newHead) ==
  IF \E i \in 1 .. Len(fruits) :
       StrictEq(fruits[i][1], newHead[1]) /\ StrictEq(fruits[i][2], newHead[2])
  THEN CHOOSE i \in 1 .. Len(fruits) :
         /\ StrictEq(fruits[i][1], newHead[1])
         /\ StrictEq(fruits[i][2], newHead[2])
         /\ \A j \in 1 .. (i - 1) :
              ~(StrictEq(fruits[j][1], newHead[1])
                /\ StrictEq(fruits[j][2], newHead[2]))
  ELSE 0

\* StepSnake with the snake updated before "if (done)"
StepSnakeAlwaysMoves(squares, action, height, width) ==
  MoveSnake(squares, NewHead(squares[1], action))

\* StepSnake with the early return taken before the body loop has run
StepSnakeIgnoresBodyHit(squares, action, height, width) ==
  IF OffBoard(NewHead(squares[1], action), action, height, width) = "true"
  THEN squares
  ELSE MoveSnake(squares, NewHead(squares[1], action))

\* the snake a call of step leaves: untouched on the early return
StepSnake(squares, action, height, width) ==
  IF StepDone(squares, action, height, width) = "true" THEN squares
  ELSE MoveSnake(squares, NewHead(squares[1], action))

\* the reward a call of step returns
StepReward(squares, fruits, action, height, width) ==
  IF StepDone(squares, action, height, width) = "true" THEN 0
  ELSE IF EatenIndex(fruits, NewHead(squares[1], action)) = 0
  THEN NO_FRUIT_REWARD
  ELSE FRUIT_REWARD

\* StepFruits with makeFruits_ run on the snake as it was before the move
StepFruitsBeforeMove(squares, fruits, action, height, width, numFruits) ==
  IF StepDone(squares, action, height, width) = "true" THEN {fruits}
  ELSE IF EatenIndex(fruits, NewHead(squares[1], action)) = 0 THEN {fruits}
  ELSE makeFruits_(squares,
                   RemoveAt(fruits,
                            EatenIndex(fruits, NewHead(squares[1], action))),
                   height, width, numFruits)

\* the fruit arrays a call of step can leave: untouched on the early return
\* and when no fruit is eaten; otherwise the eaten fruit is spliced out and
\* makeFruits_ runs on the snake as already moved
StepFruits(squares, fruits, action, height, width, numFruits) ==
  IF StepDone(squares, action, height, width) = "true" THEN {fruits}
  ELSE IF EatenIndex(fruits, NewHead(squares[1], action)) = 0 THEN {fruits}
  ELSE makeFruits_(MoveSnake(squares, NewHead(squares[1], action)),
                   RemoveAt(fruits,
                            EatenIndex(fruits, NewHead(squares[1], action))),
                   height, width, numFruits)

\* one call step(action); lastCall keeps the argument and the returned
\* object, everDone records that some call has returned done: true
Step(action) ==
  /\ snakeSquares_' = StepSnake(snakeSquares_, action, height_, width_)
  /\ fruitSquares_' \in StepFruits(snakeSquares_, fruitSquares_, action,
                                   height_, width_, numFruits_)
  /\ lastCall' =
       <<[action |-> action,
          reward |-> StepReward(snakeSquares_, fruitSquares_, action,
                                height_, width_),
          done |-> StepDone(snakeSquares_, action, height_, width_)]>>
  /\ everDone' =
       (everDone \/ StepDone(snakeSquares_, action, height_, width_) = "true")
  /\ UNCHANGED <<height_, width_, numFruits_, initLen_>>
  /\ UNCHANGED <<newArgs, newResult>>
  /\ UNCHANGED <<replayVars, cartVars, scriptVars>>

Next == \E action \in Actions : Step(action)

Spec == Init /\ [][Next]_vars

\* ---- getStateTensor ----
\* buffer.set(value, y, x, channel) writes values[y * width * 2 + x * 2 +
\* channel] of a Float32Array of height * width * 2 zeros; a write at an
\* index outside the array, or at NaN, is dropped
BufferIndex(yx, channel, width) ==
  IF IsNumber(yx[1]) /\ IsNumber(yx[2])
  THEN yx[1] * width * 2 + yx[2] * 2 + channel
  ELSE NaN

\* the value the snake loop leaves at flat index k: the last write wins
SnakeMark(squares, k, width) ==
  IF \E i \in 1 .. Len(squares) : BufferIndex(squares[i], 0, width) = k
  THEN LET last == CHOOSE i \in 1 .. Len(squares) :
                     /\ BufferIndex(squares[i], 0, width) = k
                     /\ \A j \in (i + 1) .. Len(squares) :
                          BufferIndex(squares[j], 0, width) # k
       IN  IF last = 1 THEN 2 ELSE 1
  ELSE 0

\* the value the fruit loop leaves at flat index k
FruitMark(fruits, k, width) ==
  IF \E i \in 1 .. Len(fruits) : BufferIndex(fruits[i], 1, width) = k
  THEN 1 ELSE 0

\* the values of the tensor, flat, indexed from 0
getStateTensor(squares, fruits, height, width) ==
  [k \in 0 .. (height * width * 2 - 1) |->
     IF k % 2 = 0 THEN SnakeMark(squares, k, width)
     ELSE FruitMark(fruits, k, width)]

\* ---- vocabulary of the properties ----
\* the argument and the returned object of the call that led to this state
Called == lastCall # <<>>
CalledAction == lastCall[1].action
ReturnedReward == lastCall[1].reward
ReturnedDone == lastCall[1].done

\* a cell of the board
InBounds(yx) == yx[1] \in 0 .. (height_ - 1) /\ yx[2] \in 0 .. (width_ - 1)

\* two coordinate pairs name the same cell (NaN names no cell)
SameCell(a, b) == a = b /\ a[1] # NaN /\ a[2] # NaN

PairwiseDistinct(cells) ==
  \A i, j \in 1 .. Len(cells) : i # j => ~SameCell(cells[i], cells[j])

OnSnake(yx, squares) == \E i \in 1 .. Len(squares) : SameCell(yx, squares[i])

\* the board invariant of the data model
BoardInvariant(squares, fruits) ==
  /\ \A i \in 1 .. Len(squares) : InBounds(squares[i])
  /\ \A i \in 1 .. Len(fruits) : InBounds(fruits[i])
  /\ PairwiseDistinct(squares)
  /\ \A i \in 1 .. Len(fruits) : ~OnSnake(fruits[i], squares)

\* the head moved one cell in the direction of a valid action
CandidateCell(head, action) ==
  CASE action = ACTION_LEFT -> <<head[1], head[2] - 1>>
    [] action = ACTION_UP -> <<head[1] - 1, head[2]>>
    [] action = ACTION_RIGHT -> <<head[1], head[2] + 1>>
    [] action = ACTION_DOWN -> <<head[1] + 1, head[2]>>

\* the number of board cells the snake does not occupy
FreeCells ==
  Cardinality({yx \in (0 .. (height_ - 1)) \X (0 .. (width_ - 1)) :
                 ~OnSnake(yx, snakeSquares_)})

\* ---- C1 ----
\* C1: right after construction, for every configuration of positive
\* integers, the snake has initLen pairwise distinct cells on the board,
\* there are numFruits fruits and no fruit is on the snake.
C1_AfterConstruction ==
  ~Called =>
    /\ Len(snakeSquares_) = initLen_
    /\ Len(fruitSquares_) = numFruits_
    /\ BoardInvariant(snakeSquares_, fruitSquares_)

\* ---- C2 ----
\* C2: a step with one of the four actions taken from a state that satisfies
\* the board invariant leads to a state that satisfies it, for every
\* numFruits >= 1.
C2_StepPreservesBoardInvariant ==
  [][(BoardInvariant(snakeSquares_, fruitSquares_)
      /\ lastCall'[1].action \in ValidActions)
     => BoardInvariant(snakeSquares_', fruitSquares_')]_vars

\* ---- C3 ----
\* C3: for each of the four actions, step returns done: true exactly when
\* the candidate head cell is outside the board or is a snake cell of index
\* >= 1 (the tail included), and done: false otherwise.
C3_DoneExactlyOnCollision ==
  [][lastCall'[1].action \in ValidActions =>
       LET candidate == CandidateCell(snakeSquares_[1], lastCall'[1].action)
           collides ==
             \/ ~InBounds(candidate)
             \/ \E i \in 2 .. Len(snakeSquares_) : snakeSquares_[i] = candidate
       IN  /\ collides => lastCall'[1].done = "true"
           /\ ~collides => lastCall'[1].done = "false"]_vars

\* ---- C4 ----
\* C4: a step that returns done: true returns reward 0 and leaves the snake
\* and the fruits as they were, so getStateTensor() is the same before and
\* after it.
C4_TerminalStepChangesNothing ==
  [][lastCall'[1].done = "true" =>
       /\ lastCall'[1].reward = 0
       /\ snakeSquares_' = snakeSquares_
       /\ fruitSquares_' = fruitSquares_
       /\ getStateTensor(snakeSquares_', fruitSquares_', height_', width_')
            = getStateTensor(snakeSquares_, fruitSquares_, height_, width_)]_vars

\* a call with one of the four actions has just returned done: true
C4_Witness ==
  Called /\ CalledAction \in ValidActions /\ ReturnedDone = "true"
         /\ BoardInvariant(snakeSquares_, fruitSquares_)

\* ---- C5 ----
\* C5: on a legal move (done: false) the snake after the step is the
\* candidate head cell followed by the previous cells without the last one.
C5_LegalMoveTranslates ==
  [][lastCall'[1].done = "false" =>
       /\ Len(snakeSquares_') = Len(snakeSquares_)
       /\ snakeSquares_'[1]
            = NewHead(snakeSquares_[1], lastCall'[1].action)
       /\ \A i \in 2 .. Len(snakeSquares_) :
            snakeSquares_'[i] = snakeSquares_[i - 1]]_vars

\* a legal move, with one of the four actions, of a snake of at least three
\* cells that is on the board
C5_Witness ==
  /\ Called /\ ReturnedDone = "false" /\ CalledAction \in ValidActions
  /\ Len(snakeSquares_) >= 3
  /\ BoardInvariant(snakeSquares_, fruitSquares_)

\* ---- C6 ----
\* C6: the snake always has initLen cells, after steps that eat a fruit and
\* after steps that return done: true as well.
C6_LengthConstant == Len(snakeSquares_) = initLen_

\* a fruit has just been eaten in a game that has seen done: true before
C6_Witness ==
  Called /\ ReturnedReward = FRUIT_REWARD /\ everDone /\ initLen_ >= 2

\* ---- C7 ----
\* C7: on a legal move the reward is 1 exactly when the new head is a fruit
\* cell of the state before the step, and 0 otherwise; an eaten fruit is
\* removed and its replacement, appended last, is not on a cell of the snake
\* as moved.
C7_RewardAndReplacement ==
  [][lastCall'[1].done = "false" =>
       LET newHead == snakeSquares_'[1]
           eatenAt == {i \in 1 .. Len(fruitSquares_) :
                         SameCell(fruitSquares_[i], newHead)}
       IN  /\ lastCall'[1].reward = (IF eatenAt # {} THEN 1 ELSE 0)
           /\ eatenAt = {} => fruitSquares_' = fruitSquares_
           /\ eatenAt # {} =>
                /\ Len(fruitSquares_') = Len(fruitSquares_)
                /\ \E i \in eatenAt :
                     SubSeq(fruitSquares_', 1, Len(fruitSquares_) - 1)
                       = RemoveAt(fruitSquares_, i)
                /\ ~OnSnake(fruitSquares_'[Len(fruitSquares_')],
                            snakeSquares_')]_vars

\* a fruit has just been eaten and replaced on the board
C7_Witness ==
  /\ Called /\ ReturnedDone = "false" /\ ReturnedReward = FRUIT_REWARD
  /\ InBounds(fruitSquares_[Len(fruitSquares_)])

\* ---- C8 ----
\* C8: whenever the board has at least numFruits cells the snake does not
\* occupy, the fruits are exactly numFruits pairwise distinct cells.
C8_FruitsAreDistinct ==
  FreeCells >= numFruits_ =>
    /\ Len(fruitSquares_) = numFruits_
    /\ PairwiseDistinct(fruitSquares_)

\* ---- C9 ----
\* C9 as stated: a step with a value that is none of the four actions
\* changes neither the snake nor the fruits and returns done undefined.
C9_InvalidActionChangesNothing ==
  [][lastCall'[1].action \notin ValidActions =>
       /\ snakeSquares_' = snakeSquares_
       /\ fruitSquares_' = fruitSquares_
       /\ lastCall'[1].done = "undefined"]_vars

\* C9 amended: such a step never changes the fruits and returns reward 0.
\* When no snake cell of index >= 1 is [undefined, undefined] it returns
\* done undefined, drops the tail and puts [undefined, undefined] in front;
\* otherwise it returns done: true and leaves the snake alone.
C9_InvalidActionShiftsSnake ==
  [][lastCall'[1].action \notin ValidActions =>
       /\ fruitSquares_' = fruitSquares_
       /\ lastCall'[1].reward = 0
       /\ IF \E i \in 2 .. Len(snakeSquares_) :
               snakeSquares_[i] = <<Undefined, Undefined>>
          THEN /\ lastCall'[1].done = "true"
               /\ snakeSquares_' = snakeSquares_
          ELSE /\ lastCall'[1].done = "undefined"
               /\ snakeSquares_' =
                    <<<<Undefined, Undefined>>>>
                      \o SubSeq(snakeSquares_, 1, Len(snakeSquares_) - 1)]_vars

\* an invalid action has just put [undefined, undefined] in front of a
\* snake whose other cells are on the board
C9_Witness ==
  /\ Called /\ CalledAction \notin ValidActions
  /\ ReturnedDone = "undefined"
  /\ snakeSquares_[1] = <<Undefined, Undefined>>
  /\ Len(snakeSquares_) >= 2 /\ InBounds(snakeSquares_[2])

\* ---- C10 ----
\* C10 as stated: once a step has returned done: true the game is
\* Terminated for good: no later step (here: with one of the four actions)
\* returns done: false or changes the snake or the fruits.
C10_TerminatedIsAbsorbing ==
  [][(everDone /\ lastCall'[1].action \in ValidActions) =>
       /\ lastCall'[1].done # "false"
       /\ snakeSquares_' = snakeSquares_
       /\ fruitSquares_' = fruitSquares_]_vars

\* C10 amended: the game keeps no Terminated state.  A step that returned
\* done: true changed nothing, so the same action repeated right after it
\* returns done: true again and changes nothing; a step with another action
\* may return done: false and move the snake.
C10_SameActionStaysDone ==
  [][(Called /\ ReturnedDone = "true"
      /\ lastCall'[1].action = CalledAction)
     => /\ lastCall'[1].done = "true"
        /\ snakeSquares_' = snakeSquares_
        /\ fruitSquares_' = fruitSquares_]_vars

\* a legal move made after some step had returned done: true
C10_Witness ==
  Called /\ everDone /\ ReturnedDone = "false"
         /\ CalledAction \in ValidActions

(***************************************************************************)
(* Part 1b: the constructor of SnakeGame as an operation.  SpecNew starts  *)
(* before the call "new SnakeGame(args)" and New is the whole call.  A     *)
(* field of args is omitted or null (Undefined), NaN, a number that is not *)
(* an integer (Fractional), or an integer.  Math.random() is an input of   *)
(* the call: each draw is r / RandomGrid for an r in 0 .. RandomGrid - 1.  *)
(***************************************************************************)

\* ---- bounds of the model ----
\* the largest integer supplied in args
MaxArgument == 1
\* Math.random() returns a multiple of 1 / RandomGrid
RandomGrid == 2

\* ---- program constants ----
DEFAULT_HEIGHT == 16
DEFAULT_WIDTH == 16
DEFAULT_NUM_FRUITS == 1
DEFAULT_INIT_LEN == 4

\* a number that is not an integer, such as 1.5
Fractional == -97

ArgValues == {Undefined, NaN, Fractional} \cup (-1 .. MaxArgument)

Randoms == 0 .. (RandomGrid - 1)

\* "if (args.f == null) args.f = DEFAULT": true of null and of undefined
OrDefault(v, default) == IF v = Undefined THEN default ELSE v

\* the args object after the four defaulting ifs
WithDefaults(args) ==
  [height |-> OrDefault(args.height, DEFAULT_HEIGHT),
   width |-> OrDefault(args.width, DEFAULT_WIDTH),
   numFruits |-> OrDefault(args.numFruits, DEFAULT_NUM_FRUITS),
   initLen |-> OrDefault(args.initLen, DEFAULT_INIT_LEN)]

\* assertPositiveInteger with "x >= 0" in place of "x > 0"
assertPositiveIntegerAllowsZero(x) ==
  IF x \in {Undefined, NaN, Fractional} THEN "integer"
  ELSE IF ~(x >= 0) THEN "positive"
  ELSE "ok"

\* which of its two errors assertPositiveInteger(x, name) throws, or "ok"
assertPositiveInteger(x) ==
  IF x \in {Undefined, NaN, Fractional} THEN "integer"
  ELSE IF ~(x > 0) THEN "positive"
  ELSE "ok"

\* the four assertPositiveInteger calls, in order: TRUE when one throws
AssertionThrows(args) ==
  \/ assertPositiveInteger(args.height) # "ok"
  \/ assertPositiveInteger(args.width) # "ok"
  \/ assertPositiveInteger(args.numFruits) # "ok"
  \/ assertPositiveInteger(args.initLen) # "ok"

\* getRandomInteger(min, max) when Math.random() returns r / RandomGrid
getRandomIntegerAt(min, max, r) == ((max - min) * r) \div RandomGrid + min

\* initializeSnake_ for the two draws ry, rx
initializeSnakeAt(height, width, initLen, ry, rx) ==
  StraightSnake(getRandomIntegerAt(0, height, ry),
                getRandomIntegerAt(initLen - 1, width, rx), initLen)

RECURSIVE PlaceFruitsAt(_, _, _, _, _, _)
\* the fruit loop of makeFruits_ from iteration i on, iteration i using the
\* draw draws[i + 1]
PlaceFruitsAt(emptyIndices, fruits, i, numFruits, width, draws) ==
  IF i >= numFruits THEN fruits
  ELSE LET fruitIndex ==
             ElementAt(emptyIndices,
                       getRandomIntegerAt(0, Len(emptyIndices), draws[i + 1]))
       IN  PlaceFruitsAt(IF numFruits > 1
                         THEN SpliceIndexOf(emptyIndices, fruitIndex)
                         ELSE emptyIndices,
                         Append(fruits, FruitSquare(fruitIndex, width)),
                         i + 1, numFruits, width, draws)

\* makeFruits_ for the draws given
makeFruitsAt(squares, fruits, height, width, numFruitsWanted, draws) ==
  IF numFruitsWanted - Len(fruits) <= 0 THEN fruits
  ELSE PlaceFruitsAt(EmptyIndices(squares, height, width), fruits, 0,
                     numFruitsWanted - Len(fruits), width, draws)

\* the object before the constructor has run: no field is set
InitNew ==
  /\ height_ = Undefined
  /\ width_ = Undefined
  /\ numFruits_ = Undefined
  /\ initLen_ = Undefined
  /\ snakeSquares_ = <<>>
  /\ fruitSquares_ = <<>>
  /\ lastCall = <<>>
  /\ everDone = FALSE
  /\ newArgs = [height |-> Undefined, width |-> Undefined,
                numFruits |-> Undefined, initLen |-> Undefined]
  /\ newResult = "pending"
  /\ IdleReplay /\ IdleCart /\ IdleScripts

\* new SnakeGame(args): the four fields are stored, then the assertions run,
\* then the snake and the fruits are placed
New(args, ry, rx, draws) ==
  /\ newResult = "pending"
  /\ newArgs' = args
  /\ height_' = WithDefaults(args).height
  /\ width_' = WithDefaults(args).width
  /\ numFruits_' = WithDefaults(args).numFruits
  /\ initLen_' = WithDefaults(args).initLen
  /\ IF AssertionThrows(WithDefaults(args))
     THEN /\ newResult' = "threw"
          /\ UNCHANGED <<snakeSquares_, fruitSquares_>>
     ELSE /\ newResult' = "returned"
          /\ snakeSquares_' =
               initializeSnakeAt(height_', width_', initLen_', ry, rx)
          /\ fruitSquares_' =
               makeFruitsAt(snakeSquares_', <<>>, height_', width_',
                            numFruits_', draws)
  /\ UNCHANGED <<lastCall, everDone>>
  /\ UNCHANGED <<replayVars, cartVars, scriptVars>>

NextNew ==
  \E args \in [height : ArgValues, width : ArgValues,
               numFruits : ArgValues, initLen : ArgValues] :
    \E ry \in Randoms, rx \in Randoms :
      \E draws \in [1 .. (IF AssertionThrows(WithDefaults(args)) THEN 0
                          ELSE WithDefaults(args).numFruits) -> Randoms] :
        New(args, ry, rx, draws)

SpecNew == InitNew /\ [][NextNew]_vars

\* ---- C11 ----
\* a supplied value that is not a positive integer
NotPositiveInteger(v) == v # Undefined /\ ~(v \in Nat /\ v > 0)

\* C11: the constructor throws exactly when a supplied field is not a
\* positive integer, and then no snake and no fruit has been placed; omitted
\* or null fields are replaced by their defaults and do not raise.
C11_ConstructorValidates ==
  newResult # "pending" =>
    /\ newResult = "threw" <=>
         \/ NotPositiveInteger(newArgs.height)
         \/ NotPositiveInteger(newArgs.width)
         \/ NotPositiveInteger(newArgs.numFruits)
         \/ NotPositiveInteger(newArgs.initLen)
    /\ newResult = "threw" => snakeSquares_ = <<>> /\ fruitSquares_ = <<>>
    /\ newResult = "returned" =>
         /\ Len(snakeSquares_) > 0 /\ Len(fruitSquares_) > 0
         /\ height_ = (IF newArgs.height = Undefined THEN 16
                       ELSE newArgs.height)
         /\ width_ = (IF newArgs.width = Undefined THEN 16
                      ELSE newArgs.width)
         /\ numFruits_ = (IF newArgs.numFruits = Undefined THEN 1
                          ELSE newArgs.numFruits)
         /\ initLen_ = (IF newArgs.initLen = Undefined THEN 4
                        ELSE newArgs.initLen)

\* the constructor threw on initLen 0 with the other three fields omitted
C11_Witness ==
  /\ newResult = "threw"
  /\ newArgs.height = Undefined /\ newArgs.width = Undefined
  /\ newArgs.numFruits = Undefined /\ newArgs.initLen = 0

\* ---- C12 ----
\* the tensor entry [r, c, channel] of a [height, width, 2] array kept flat
TensorAt(tensor, r, c, channel) == tensor[(r * width_ + c) * 2 + channel]

\* C12: getStateTensor returns a [height, width, 2] array whose channel 0 is
\* 2 exactly on the head, 1 exactly on the snake cells of index >= 1 and 0
\* elsewhere, and whose channel 1 is 1 exactly on the fruit cells.
C12_StateTensorContent ==
  LET tensor ==
        getStateTensor(snakeSquares_, fruitSquares_, height_, width_)
  IN  /\ DOMAIN tensor = 0 .. (height_ * width_ * 2 - 1)
      /\ \A r \in 0 .. (height_ - 1), c \in 0 .. (width_ - 1) :
           /\ TensorAt(tensor, r, c, 0) = 2 <=> snakeSquares_[1] = <<r, c>>
           /\ TensorAt(tensor, r, c, 0) = 1 <=>
                \E i \in 2 .. Len(snakeSquares_) : snakeSquares_[i] = <<r, c>>
           /\ TensorAt(tensor, r, c, 0) \in {0, 1, 2}
           /\ TensorAt(tensor, r, c, 1) = 1 <=>
                \E i \in 1 .. Len(fruitSquares_) : fruitSquares_[i] = <<r, c>>
           /\ TensorAt(tensor, r, c, 1) \in {0, 1}

(***************************************************************************)
(* Part 1c: the game of the scenario "snake [[5,5],[5,4],[5,3],[5,2]] on   *)
(* the default 16x16 board, ACTION_LEFT repeated".  SpecLeft starts from   *)
(* the constructor's result with y = 5, x = 5 and any fruit it can place.  *)
(***************************************************************************)
ScenarioSnake == <<<<5, 5>>, <<5, 4>>, <<5, 3>>, <<5, 2>>>>

InitLeft ==
  /\ height_ = DEFAULT_HEIGHT
  /\ width_ = DEFAULT_WIDTH
  /\ numFruits_ = DEFAULT_NUM_FRUITS
  /\ initLen_ = DEFAULT_INIT_LEN
  /\ snakeSquares_ = ScenarioSnake
  /\ snakeSquares_ \in initializeSnake_(height_, width_, initLen_)
  /\ fruitSquares_ \in
       makeFruits_(snakeSquares_, <<>>, height_, width_, numFruits_)
  /\ lastCall = <<>>
  /\ everDone = FALSE
  /\ newArgs = [height |-> Undefined, width |-> Undefined,
                numFruits |-> Undefined, initLen |-> Undefined]
  /\ newResult = "returned"
  /\ IdleReplay /\ IdleCart /\ IdleScripts

NextLeft == Step(ACTION_LEFT)

SpecLeft == InitLeft /\ [][NextLeft]_vars

\* ---- C13 ----
\* C13 as stated: repeated ACTION_LEFT steps return done: false until the
\* head is at column 0, and only the step after that returns done: true,
\* with the head still at column 0.
C13_LeftRunsToTheWall ==
  Called =>
    /\ ReturnedDone = "true" => snakeSquares_[1][2] = 0
    /\ ReturnedDone = "false" => snakeSquares_[1][2] < 5

\* C13 amended: the snake faces right, so the first ACTION_LEFT already
\* hits the snake's second cell [5,4]: it returns reward 0 and done: true
\* and moves nothing; so does every later ACTION_LEFT.  The head stays at
\* column 5 and never reaches column 0.
C13_LeftHitsTheBody ==
  /\ snakeSquares_ = <<<<5, 5>>, <<5, 4>>, <<5, 3>>, <<5, 2>>>>
  /\ Len(fruitSquares_) = 1
  /\ Called =>
       /\ CalledAction = ACTION_LEFT
       /\ ReturnedDone = "true"
       /\ ReturnedReward = 0

\* ACTION_LEFT has returned done: true with the head at column 5
C13_Witness ==
  /\ Called /\ CalledAction = ACTION_LEFT /\ ReturnedDone = "true"
  /\ snakeSquares_[1] = <<5, 5>>

(***************************************************************************)
(* Part 2: ReplayMemory (snake-dqn/replay_memory.js), of which only the    *)
(* test file is at hand; the class is modelled from its specification: a   *)
(* buffer of at most maxLength items, append evicting the oldest item at   *)
(* capacity, sample drawing batchSize resident items with replacement.     *)
(* appendedItems records every item appended, in order.                    *)
(***************************************************************************)

\* ---- bounds of the model ----
\* the largest capacity of a ReplayMemory
MaxCapacity == 3
\* the number of append calls in a run
MaxAppends == 4
\* items are 1 .. MaxItem
MaxItem == 2
\* the largest batchSize of a sample call
MaxBatchSize == 3

Items == 1 .. MaxItem

\* new ReplayMemory(maxLength): empty
InitReplay ==
  /\ maxLength \in 1 .. MaxCapacity
  /\ buffer = <<>>
  /\ appendedItems = <<>>
  /\ lastReplay = <<>>
  /\ IdleSnake /\ IdleCart /\ IdleScripts

\* BufferAfterAppend that never evicts
BufferAfterAppendNoEvict(items, item, capacity) == Append(items, item)

\* BufferAfterAppend that evicts the newest resident item at capacity
BufferAfterAppendEvictsNewest(items, item, capacity) ==
  IF Len(items) < capacity THEN Append(items, item)
  ELSE Append(SubSeq(items, 1, Len(items) - 1), item)

\* the resident items after append(item): at capacity the oldest is evicted
BufferAfterAppend(items, item, capacity) ==
  IF Len(items) < capacity THEN Append(items, item)
  ELSE Append(Tail(items), item)

\* append(item)
append(item) ==
  /\ Len(appendedItems) < MaxAppends
  /\ buffer' = BufferAfterAppend(buffer, item, maxLength)
  /\ appendedItems' = Append(appendedItems, item)
  /\ lastReplay' = <<[op |-> "append", batchSize |-> 0, batch |-> <<>>]>>
  /\ UNCHANGED maxLength
  /\ UNCHANGED <<snakeVars, cartVars, scriptVars>>

\* SampleBatches drawing without replacement: at most Len(items) items
SampleBatchesWithoutReplacement(items, batchSize) ==
  LET n == IF batchSize < Len(items) THEN batchSize ELSE Len(items)
  IN  { [i \in 1 .. n |-> items[draws[i]]] :
          draws \in { f \in [1 .. n -> 1 .. Len(items)] :
                        \A i, j \in 1 .. n : i # j => f[i] # f[j] } }

\* the batches sample(batchSize) can return: batchSize independent draws,
\* with replacement, among the resident items
SampleBatches(items, batchSize) ==
  { [i \in 1 .. batchSize |-> items[draws[i]]] :
      draws \in [1 .. batchSize -> 1 .. Len(items)] }

\* BufferAfterSample that removes the first item sampled
BufferAfterSampleConsumes(items, batch) ==
  IF \E k \in 1 .. Len(items) : items[k] = batch[1]
  THEN RemoveAt(items, CHOOSE k \in 1 .. Len(items) : items[k] = batch[1])
  ELSE items

\* the resident items after sample has returned batch: sample only reads
BufferAfterSample(items, batch) == items

\* sample(batchSize) on a non-empty memory
sample(batchSize) ==
  /\ Len(buffer) > 0
  /\ \E batch \in SampleBatches(buffer, batchSize) :
       /\ lastReplay' = <<[op |-> "sample", batchSize |-> batchSize,
                            batch |-> batch]>>
       /\ buffer' = BufferAfterSample(buffer, batch)
  /\ UNCHANGED <<maxLength, appendedItems>>
  /\ UNCHANGED <<snakeVars, cartVars, scriptVars>>

NextReplay ==
  \/ \E item \in Items : append(item)
  \/ \E batchSize \in 1 .. MaxBatchSize : sample(batchSize)

SpecReplay == InitReplay /\ [][NextReplay]_vars

\* ---- vocabulary of the properties ----
Minimum(a, b) == IF a < b THEN a ELSE b

Sampled == lastReplay # <<>> /\ lastReplay[1].op = "sample"

\* some item has been evicted
Evicted == Len(appendedItems) > maxLength

\* ---- C15 ----
\* C15: the length is between 0 and maxLength and equals the number of
\* resident items, min(number of appends so far, maxLength); it is 0 at
\* creation.
C15_LengthIsBounded ==
  /\ Len(buffer) \in 0 .. maxLength
  /\ Len(buffer) = Minimum(Len(appendedItems), maxLength)

\* a sample call after an append that evicted an item
C15_Witness == Sampled /\ Evicted /\ Len(buffer) = maxLength

\* ---- C16 ----
\* C16: the resident items are exactly the last min(n, maxLength) of the n
\* appended items, in insertion order.
C16_OldestEvictedFirst ==
  buffer = SubSeq(appendedItems,
                  Len(appendedItems)
                    - Minimum(Len(appendedItems), maxLength) + 1,
                  Len(appendedItems))

\* an append evicted an item that differs from the oldest item now resident
C16_Witness ==
  /\ Evicted /\ maxLength >= 2
  /\ lastReplay[1].op = "append"
  /\ appendedItems[1] # buffer[1]
  /\ buffer[1] # buffer[Len(buffer)]

\* ---- C17 ----
\* C17: sample(batchSize) on a non-empty memory returns exactly batchSize
\* items, each of them resident, also when batchSize exceeds the length.
C17_SampleReturnsResidents ==
  Sampled =>
    /\ Len(lastReplay[1].batch) = lastReplay[1].batchSize
    /\ \A i \in 1 .. Len(lastReplay[1].batch) :
         \E k \in 1 .. Len(buffer) : buffer[k] = lastReplay[1].batch[i]

\* a batch larger than the memory, sampled after an eviction
C17_Witness ==
  /\ Sampled /\ Evicted
  /\ lastReplay[1].batchSize > Len(buffer)
  /\ Len(lastReplay[1].batch) > Len(buffer)

\* ---- C18 ----
\* C18: a sample call changes neither the resident items and their order
\* nor the length nor the capacity (nor what has been appended).
C18_SampleIsReadOnly ==
  [][lastReplay'[1].op = "sample" =>
       /\ buffer' = buffer
       /\ Len(buffer') = Len(buffer)
       /\ maxLength' = maxLength
       /\ appendedItems' = appendedItems]_vars

\* a sample call on a memory of two or more items that can still be appended to
C18_Witness ==
  /\ Sampled /\ Len(buffer) >= 2
  /\ lastReplay[1].batch # <<>>
  /\ Len(appendedItems) < MaxAppends

(***************************************************************************)
(* Part 3: CartPole (cart-pole/cart_pole.js).                              *)
(*                                                                         *)
(* JavaScript numbers are kept as integers counting thousandths: 9.8 is    *)
(* 9800.  Products and quotients are rounded to the nearest thousandth     *)
(* where the code rounds to the nearest double, and Math.sin and Math.cos  *)
(* are their Taylor polynomials of degree 3 and 4, so the trajectories are *)
(* those of the code up to rounding.  cartPole is the record of the four   *)
(* state variables, numUpdates counts the update calls, and lastUpdate     *)
(* holds the action and the return value of the latest one.                *)
(***************************************************************************)

\* ---- bounds of the model ----
\* the number of update calls in a run
MaxUpdates == 7

\* one, in thousandths
Scale == 1000
\* Math.PI
PI == 3142

\* n / d rounded to the nearest integer, d > 0
Nearest(n, d) == (2 * n + d) \div (2 * d)
\* a * b and a / b on thousandths
Times(a, b) == Nearest(a * b, Scale)
Over(a, b) == Nearest(a * Scale, b)

\* Math.sin and Math.cos
Sin(t) == t - Nearest(Times(Times(t, t), t), 6)
Cos(t) == Scale - Nearest(Times(t, t), 2)
           + Nearest(Times(Times(t, t), Times(t, t)), 24)

\* ---- program constants ----
gravity == 9800
massCart == 1000
massPole == 100
totalMass == massCart + massPole
length == 500
poleMoment == Times(massPole, length)
forceMag == 10000
tau == 20
xThreshold == 2400
thetaTheshold == Nearest(12 * 2 * PI, 360)

\* the values an action argument takes
CartActions == {-1, 0, 1, 2}

\* Math.random() - 0.5, for the draw r
Centered(r) == Nearest(r * Scale, RandomGrid) - Nearest(Scale, 2)

\* setRandomState(), for the four draws
setRandomState(r1, r2, r3, r4) ==
  [x |-> Centered(r1),
   xDot |-> Centered(r2) * 1,
   theta |-> Nearest(Centered(r3) * 2 * 6 * 2 * PI, 360 * Scale),
   thetaDot |-> Nearest(Centered(r4), 2)]

\* new CartPole(initializeStateRandomly)
InitCart ==
  /\ \E initializeStateRandomly \in BOOLEAN :
       IF initializeStateRandomly
       THEN \E r1, r2, r3, r4 \in Randoms :
              cartPole = setRandomState(r1, r2, r3, r4)
       ELSE cartPole = [x |-> 0, xDot |-> 0, theta |-> 0, thetaDot |-> 0]
  /\ numUpdates = 0
  /\ lastUpdate = <<>>
  /\ IdleSnake /\ IdleReplay /\ IdleScripts

\* Force that grows with the action
ForceProportional(action) == action * forceMag

\* const force = action > 0 ? this.forceMag : -this.forceMag
Force(action) == IF action > 0 THEN forceMag ELSE -forceMag

\* the state after update(action), by Euler's method
UpdateState(state, action) ==
  LET force == Force(action)
      cosTheta == Cos(state.theta)
      sinTheta == Sin(state.theta)
      temp == Over(force + Times(Times(Times(poleMoment, state.thetaDot),
                                       state.thetaDot), sinTheta),
                   totalMass)
      thetaAcc == Over(Times(gravity, sinTheta) - Times(cosTheta, temp),
                       Times(length,
                             Over(4 * Scale, 3 * Scale)
                               - Over(Times(Times(massPole, cosTheta),
                                            cosTheta), totalMass)))
      xAcc == temp - Over(Times(Times(poleMoment, thetaAcc), cosTheta),
                          totalMass)
  IN  [x |-> state.x + Times(tau, state.xDot),
       xDot |-> state.xDot + Times(tau, xAcc),
       theta |-> state.theta + Times(tau, state.thetaDot),
       thetaDot |-> state.thetaDot + Times(tau, thetaAcc)]

\* isDone() of the state
isDone(state) ==
  \/ state.x < -xThreshold
  \/ state.x > xThreshold
  \/ state.theta < -thetaTheshold
  \/ state.theta > thetaTheshold

\* UpdateReturn that tests the state as it was before the update
UpdateReturnBefore(state, action) == isDone(state)

\* the value update(action) returns: isDone() once the state is updated
UpdateReturn(state, action) == isDone(UpdateState(state, action))

\* update(action)
update(action) ==
  /\ numUpdates < MaxUpdates
  /\ cartPole' = UpdateState(cartPole, action)
  /\ lastUpdate' = <<[action |-> action,
                      done |-> UpdateReturn(cartPole, action)]>>
  /\ numUpdates' = numUpdates + 1
  /\ UNCHANGED <<snakeVars, replayVars, scriptVars>>

NextCart == \E action \in CartActions : update(action)

SpecCart == InitCart /\ [][NextCart]_vars

\* ---- C19 ----
\* C19: update depends only on the sign of the action: from the state an
\* update was made in, every action on the same side of 0 (both > 0, or
\* both <= 0) gives the same next state and the same return value; the
\* force is +forceMag for an action > 0 and -forceMag otherwise.
C19_OnlyTheSignMatters ==
  [][\A other \in CartActions :
       ((other > 0) <=> (lastUpdate'[1].action > 0)) =>
         /\ cartPole' = UpdateState(cartPole, other)
         /\ lastUpdate'[1].done = UpdateReturn(cartPole, other)
         /\ Force(other) = IF lastUpdate'[1].action > 0 THEN forceMag
                           ELSE -forceMag]_vars

\* an update with action 2 that moved the cart and the pole, after others
C19_Witness ==
  /\ numUpdates >= 2
  /\ lastUpdate[1].action = 2
  /\ cartPole.xDot # 0 /\ cartPole.thetaDot # 0

MaxStepsPerGame == 7
\* the most update calls a train call can make:
\* numGames * maxStepsPerGame <= MaxTrainUpdates
MaxTrainUpdates == 12

\* the names of the trainable variables of the model
GradVars == {"kernel", "bias"}

\* the actions getLogitsAndActions samples
PolicyActions == {0, 1}

\* the gradients of one step: one tensor per variable
StepGradients(game, step) ==
  [v \in GradVars |-> [game |-> game, step |-> step]]

\* pushGradients_ that overwrites the entries of a key already recorded
pushGradients_Overwrites(record, gradients) ==
  [key \in (DOMAIN record) \cup (DOMAIN gradients) |->
     IF key \in DOMAIN gradients THEN <<gradients[key]>> ELSE record[key]]

\* pushGradients_(record, gradients): the record afterwards
pushGradients_(record, gradients) ==
  [key \in (DOMAIN record) \cup (DOMAIN gradients) |->
     IF key \in DOMAIN gradients
     THEN IF key \in DOMAIN record
          THEN Append(record[key], gradients[key])
          ELSE <<gradients[key]>>
     ELSE record[key]]

\* discountAndNormalizeRewards: one normalized reward per reward
discountAndNormalizeRewards(rewardSequences) ==
  [g \in 1 .. Len(rewardSequences) |->
     [s \in 1 .. Len(rewardSequences[g]) |-> [game |-> g, step |-> s]]]

\* the call train(cartPoleSystem, optimizer, discountRate, numGames,
\* maxStepsPerGame) on a new CartPole, up to "onGameEnd(0, numGames)"
InitTrain ==
  /\ trainArgs \in
       { a \in [numGames : 1 .. MaxTrainUpdates,
                maxStepsPerGame : 1 .. MaxStepsPerGame] :
           a.numGames * a.maxStepsPerGame <= MaxTrainUpdates }
  /\ trainPc = "games"
  /\ gameIndex = 0 /\ stepIndex = 0
  /\ gameRewards = <<>> /\ gameGradients = <<>>
  /\ allGradients = <<>> /\ allRewards = <<>> /\ gameSteps = <<>>
  /\ gameEnds = <<0>>
  /\ gameUpdates = <<>>
  /\ scaleCall = <<>> /\ trainReturn = <<>>
  /\ cartPole = [x |-> 0, xDot |-> 0, theta |-> 0, thetaDot |-> 0]
  /\ numUpdates = 0 /\ lastUpdate = <<>>
  /\ IdleSnake /\ IdleReplay
  /\ IdleFilters /\ IdleGan /\ IdleDetection /\ IdleJena

trainOthers == <<snakeVars, replayVars, filterVars, ganVars, detectionVars,
                 jenaVars>>

\* the head of an iteration of "for (let i = 0; i < numGames; ++i)"
GameBegin ==
  /\ trainPc = "games"
  /\ gameIndex < trainArgs.numGames
  /\ \E r1, r2, r3, r4 \in Randoms :
       cartPole' = setRandomState(r1, r2, r3, r4)
  /\ gameRewards' = <<>>
  /\ gameGradients' = <<>>
  /\ stepIndex' = 0
  /\ gameUpdates' = Append(gameUpdates, [updates |-> 0, done |-> FALSE])
  /\ trainPc' = IF 0 < trainArgs.maxStepsPerGame THEN "steps" ELSE "played"
  /\ UNCHANGED <<trainArgs, gameIndex, allGradients, allRewards, gameSteps,
                 gameEnds, scaleCall, trainReturn, numUpdates, lastUpdate>>
  /\ UNCHANGED trainOthers

\* whether the iteration j of the step loop calls onGameEnd(i + 1, numGames)
GameNotified(returnedDone, j, maxStepsPerGame) ==
  returnedDone \/ (~returnedDone /\ j >= maxStepsPerGame)

\* StepsLeft that lets a game go on after update returned true
StepsLeftIgnoresDone(returnedDone, j, maxStepsPerGame) ==
  j + 1 < maxStepsPerGame

\* whether the step loop goes on after iteration j: no break, and j + 1 is
\* below maxStepsPerGame
StepsLeft(returnedDone, j, maxStepsPerGame) ==
  /\ ~returnedDone
  /\ ~(j >= maxStepsPerGame)
  /\ j + 1 < maxStepsPerGame

\* the reward pushed for a step
GameReward(returnedDone) == IF returnedDone THEN 0 ELSE 1

\* one iteration of "for (let j = 0; j < maxStepsPerGame; ++j)"
GameStep ==
  /\ trainPc = "steps"
  /\ \E action \in PolicyActions :
       LET returnedDone == UpdateReturn(cartPole, action)
           i == gameIndex
           j == stepIndex
       IN  /\ gameGradients' =
                pushGradients_(gameGradients, StepGradients(i, j))
           /\ cartPole' = UpdateState(cartPole, action)
           /\ lastUpdate' = <<[action |-> action, done |-> returnedDone]>>
           /\ numUpdates' = numUpdates + 1
           /\ gameUpdates' =
                [gameUpdates EXCEPT ![i + 1] =
                   [updates |-> @.updates + 1, done |-> returnedDone]]
           /\ gameRewards' = Append(gameRewards, GameReward(returnedDone))
           /\ gameEnds' =
                IF GameNotified(returnedDone, j, trainArgs.maxStepsPerGame)
                THEN Append(gameEnds, i + 1) ELSE gameEnds
           /\ IF StepsLeft(returnedDone, j, trainArgs.maxStepsPerGame)
              THEN stepIndex' = j + 1 /\ trainPc' = "steps"
              ELSE stepIndex' = j /\ trainPc' = "played"
  /\ UNCHANGED <<trainArgs, gameIndex, allGradients, allRewards, gameSteps,
                 scaleCall, trainReturn>>
  /\ UNCHANGED trainOthers

\* the rest of the iteration of the game loop, after the step loop
GameEnd ==
  /\ trainPc = "played"
  /\ gameSteps' = Append(gameSteps, Len(gameRewards))
  /\ allGradients' = pushGradients_(allGradients, gameGradients)
  /\ allRewards' = Append(allRewards, gameRewards)
  /\ gameIndex' = gameIndex + 1
  /\ trainPc' = "games"
  /\ UNCHANGED <<trainArgs, stepIndex, gameRewards, gameGradients, gameEnds,
                 gameUpdates, scaleCall, trainReturn, cartVars>>
  /\ UNCHANGED trainOthers

\* after the game loop: the gradients are scaled, averaged and applied, and
\* gameSteps is returned
TrainEnd ==
  /\ trainPc = "games"
  /\ ~(gameIndex < trainArgs.numGames)
  /\ scaleCall' = <<[allGradients |-> allGradients,
                     normalizedRewards |->
                       discountAndNormalizeRewards(allRewards)]>>
  /\ trainReturn' = <<gameSteps>>
  /\ trainPc' = "returned"
  /\ UNCHANGED <<trainArgs, gameIndex, stepIndex, gameRewards, gameGradients,
                 allGradients, allRewards, gameSteps, gameEnds, gameUpdates,
                 cartVars>>
  /\ UNCHANGED trainOthers

NextTrain == GameBegin \/ GameStep \/ GameEnd \/ TrainEnd

SpecTrain == InitTrain /\ [][NextTrain]_vars

\* ---- vocabulary of the properties ----
TrainReturned == trainPc = "returned"

\* the game g (from 1) was stopped by an update call that returned true
EndedDone(g) == gameUpdates[g].done

\* 1, ..., 1 (n times)
Ones(n) == [s \in 1 .. n |-> 1]

\* ---- C21 ----
\* C21: train with numGames >= 1 and maxStepsPerGame >= 1 plays exactly
\* numGames games; a game makes no update call after one that returned done
\* and none beyond maxStepsPerGame, and stops only for one of these two
\* reasons; the value returned has numGames entries, entry i being the
\* number of update calls of game i, between 1 and maxStepsPerGame.
C21_GamesAndSteps ==
  /\ [](/\ Len(gameUpdates) <= trainArgs.numGames
        /\ \A g \in 1 .. Len(gameUpdates) :
             gameUpdates[g].updates <= trainArgs.maxStepsPerGame
        /\ TrainReturned =>
             /\ Len(gameUpdates) = trainArgs.numGames
             /\ Len(trainReturn[1]) = trainArgs.numGames
             /\ \A g \in 1 .. trainArgs.numGames :
                  /\ trainReturn[1][g] = gameUpdates[g].updates
                  /\ trainReturn[1][g] \in 1 .. trainArgs.maxStepsPerGame
                  /\ \/ EndedDone(g)
                     \/ gameUpdates[g].updates = trainArgs.maxStepsPerGame)
  /\ [][\A g \in 1 .. Len(gameUpdates) :
          EndedDone(g) => gameUpdates'[g] = gameUpdates[g]]_vars

\* a call that returned after a game stopped by done before the step limit
C21_Witness ==
  /\ TrainReturned
  /\ \E g \in 1 .. Len(gameUpdates) :
       /\ EndedDone(g)
       /\ gameUpdates[g].updates < trainArgs.maxStepsPerGame
       /\ trainReturn[1][g] = gameUpdates[g].updates

\* ---- C24 ----
\* C24: every game i ends with exactly one onGameEnd(i + 1, numGames),
\* whether it ended by done or by the step limit, so that with the initial
\* onGameEnd(0, numGames) the notifications are 0, 1, ..., numGames in
\* this order: between games they are 0 .. i, at the return 0 .. numGames.
C24_EveryGameNotified ==
  trainPc \in {"games", "returned"} =>
    gameEnds = [n \in 1 .. gameIndex + 1 |-> n - 1]

\* ---- C25 ----
\* C25: when scaleAndAverageGradients is called, for every variable v and
\* game g, allGradients[v][g] has as many entries as allRewards[g] and as
\* the rewards handed over for g, namely the step count of g, entry s being
\* the gradient of step s of g; and allRewards[g] is 1 for every step but
\* the last, whose reward is 0 if the game ended with done and 1 if not.
C25_GradientsMatchRewards ==
  scaleCall # <<>> =>
    LET gradients == scaleCall[1].allGradients
        rewards == scaleCall[1].normalizedRewards
    IN  /\ DOMAIN gradients = GradVars
        /\ Len(allRewards) = trainArgs.numGames
        /\ Len(rewards) = trainArgs.numGames
        /\ \A v \in GradVars :
             /\ Len(gradients[v]) = trainArgs.numGames
             /\ \A g \in 1 .. trainArgs.numGames :
                  /\ Len(gradients[v][g]) = Len(allRewards[g])
                  /\ Len(gradients[v][g]) = Len(rewards[g])
                  /\ Len(gradients[v][g]) = gameSteps[g]
                  /\ \A s \in 1 .. Len(gradients[v][g]) :
                       gradients[v][g][s] = [game |-> g - 1, step |-> s - 1]
        /\ \A g \in 1 .. trainArgs.numGames :
             allRewards[g] =
               Append(Ones(gameSteps[g] - 1),
                      IF EndedDone(g) THEN 0 ELSE 1)

\* gradients applied after two games of several steps, the first ended by
\* done and the second by the step limit
C25_Witness ==
  /\ scaleCall # <<>>
  /\ trainArgs.numGames = 2
  /\ EndedDone(1) /\ ~EndedDone(2)
  /\ gameSteps[1] > 1
  /\ allRewards[1][gameSteps[1]] = 0
  /\ allRewards[2][gameSteps[2]] = 1

(***************************************************************************)
(* Part 5: writeConvLayerFilters (visualize-convnet/main.js).              *)
(*                                                                         *)
(* The model is a layer name and the number of filters of that layer;      *)
(* the image a filter gives is left out, an output path is the layer name  *)
(* and the filter index it is built from.                                  *)
(***************************************************************************)

\* ---- bounds of the model ----
\* the largest numFilters argument (--filters is an int: -1 .. this)
MaxNumFilters == 5
\* the most filters a layer has
MaxLayerFilters == 4

\* the layer names of the calls
LayerNames == {"block1_conv1", "block2_conv1"}

\* `${filePathPrefix}_${layerName}_${i}.png`
OutputFilePath(layerName, i) == [layerName |-> layerName, filter |-> i]

\* the call writeConvLayerFilters(model, layerName, numFilters, iterations,
\* filePathPrefix), up to "const filePaths = []"
InitFilters ==
  /\ filterArgs \in [layerName : LayerNames,
                     numFilters : -1 .. MaxNumFilters,
                     maxFilters : 1 .. MaxLayerFilters]
  /\ filterPc = "entered"
  /\ numFilters = filterArgs.numFilters
  /\ filterIndex = 0
  /\ filePaths = <<>>
  /\ processedFilters = <<>>
  /\ IdleSnake /\ IdleReplay /\ IdleCart
  /\ IdleTrain /\ IdleGan /\ IdleDetection /\ IdleJena

filterOthers == <<snakeVars, replayVars, cartVars, trainVars, ganVars,
                  detectionVars, jenaVars>>

\* CutOff that leaves numFilters as it is
CutOffNever(n, maxFilters) == n

\* "if (numFilters > maxFilters) numFilters = maxFilters"
CutOff(n, maxFilters) == IF n > maxFilters THEN maxFilters ELSE n

\* the statements before the loop
FilterBegin ==
  /\ filterPc = "entered"
  /\ numFilters' = CutOff(numFilters, filterArgs.maxFilters)
  /\ filterIndex' = 0
  /\ filterPc' = "loop"
  /\ UNCHANGED <<filterArgs, filePaths, processedFilters>>
  /\ UNCHANGED filterOthers

\* one iteration of "for (let i = 0; i < numFilters; ++i)"
FilterStep ==
  /\ filterPc = "loop"
  /\ filterIndex < numFilters
  /\ processedFilters' = Append(processedFilters, filterIndex)
  /\ filePaths' =
       Append(filePaths, OutputFilePath(filterArgs.layerName, filterIndex))
  /\ filterIndex' = filterIndex + 1
  /\ UNCHANGED <<filterArgs, filterPc, numFilters>>
  /\ UNCHANGED filterOthers

\* the end of the loop and "return filePaths"
FilterReturn ==
  /\ filterPc = "loop"
  /\ ~(filterIndex < numFilters)
  /\ filterPc' = "returned"
  /\ UNCHANGED <<filterArgs, numFilters, filterIndex, filePaths,
                 processedFilters>>
  /\ UNCHANGED filterOthers

NextFilters == FilterBegin \/ FilterStep \/ FilterReturn

SpecFilters == InitFilters /\ [][NextFilters]_vars

\* ---- C22 ----
\* C22: the filters processed are the indices 0, 1, ... in increasing
\* order, never an index >= maxFilters and never more than numFilters of
\* them; there is one output path per processed filter, in that order; and
\* at the return the processed indices are 0 .. min(numFilters,
\* maxFilters) - 1.
C22_FiltersCutOff ==
  /\ processedFilters = [k \in 1 .. Len(processedFilters) |-> k - 1]
  /\ \A k \in 1 .. Len(processedFilters) :
       /\ processedFilters[k] < filterArgs.maxFilters
       /\ processedFilters[k] < filterArgs.numFilters
  /\ filePaths =
       [k \in 1 .. Len(processedFilters) |->
          OutputFilePath(filterArgs.layerName, processedFilters[k])]
  /\ filterPc = "returned" =>
       \A f \in 0 .. Minimum(filterArgs.numFilters, filterArgs.maxFilters) - 1 :
         \E k \in 1 .. Len(processedFilters) : processedFilters[k] = f

\* a call asking for more filters than the layer has, returned with one
\* path per filter of the layer
C22_Witness ==
  /\ filterPc = "returned"
  /\ filterArgs.numFilters > filterArgs.maxFilters
  /\ filterArgs.maxFilters >= 2
  /\ Len(filePaths) = filterArgs.maxFilters

(***************************************************************************)
(* Part 6: the training loop of the ACGAN trainer (mnist-gan/gan.js, run). *)
(*                                                                         *)
(* The run is given by args.epochs, args.batchSize and the number of       *)
(* training examples xTrain.shape[0].  Tensors and losses are left out: a  *)
(* slice is its offset and its size, a trainOnBatch call is counted.       *)
(***************************************************************************)

\* ---- bounds of the model ----
\* the largest args.epochs
MaxEpochs == 2
\* the largest number of training examples
MaxExamples == 5
\* the largest args.batchSize
MaxGanBatchSize == 3

\* Math.ceil(xTrain.shape[0] / args.batchSize)
NumBatches(numExamples, batchSize) ==
  (numExamples + batchSize - 1) \div batchSize

\* ActualBatchSize that always takes a full batch
ActualBatchSizeAlwaysFull(b, numExamples, batchSize) == batchSize

\* actualBatchSize of the batch b
ActualBatchSize(b, numExamples, batchSize) ==
  IF (b + 1) * batchSize >= numExamples
  THEN numExamples - b * batchSize
  ELSE batchSize

\* the state at "for (let epoch = 0; ...": models built, data loaded
InitGan ==
  /\ ganArgs \in [epochs : 0 .. MaxEpochs,
                  batchSize : 1 .. MaxGanBatchSize,
                  numExamples : 1 .. MaxExamples]
  /\ ganPc = "epochs"
  /\ epoch = 0 /\ batchIndex = 0
  /\ epochBatches = <<>>
  /\ dTrained = 0 /\ gTrained = 0
  /\ saves = <<>>
  /\ IdleSnake /\ IdleReplay /\ IdleCart
  /\ IdleTrain /\ IdleFilters /\ IdleDetection /\ IdleJena

ganOthers == <<snakeVars, replayVars, cartVars, trainVars, filterVars,
               detectionVars, jenaVars>>

\* BatchesLeft that leaves the loop one batch early
BatchesLeftButOne(b, numBatches) == b + 1 < numBatches

\* the condition of "for (let batch = 0; batch < numBatches; ++batch)"
BatchesLeft(b, numBatches) == b < numBatches

\* the head of an epoch
EpochBegin ==
  /\ ganPc = "epochs"
  /\ epoch < ganArgs.epochs
  /\ batchIndex' = 0
  /\ epochBatches' = <<>>
  /\ dTrained' = 0 /\ gTrained' = 0
  /\ ganPc' = "batches"
  /\ UNCHANGED <<ganArgs, epoch, saves>>
  /\ UNCHANGED ganOthers

\* a batch, up to "await discriminator.trainOnBatch(x, [y, auxY])"
TrainDiscriminator ==
  /\ ganPc = "batches"
  /\ BatchesLeft(batchIndex,
                 NumBatches(ganArgs.numExamples, ganArgs.batchSize))
  /\ epochBatches' =
       Append(epochBatches,
              [offset |-> batchIndex * ganArgs.batchSize,
               size |-> ActualBatchSize(batchIndex, ganArgs.numExamples,
                                        ganArgs.batchSize)])
  /\ dTrained' = dTrained + 1
  /\ ganPc' = "combined"
  /\ UNCHANGED <<ganArgs, epoch, batchIndex, gTrained, saves>>
  /\ UNCHANGED ganOthers

\* the rest of the batch, with "await combined.trainOnBatch(...)"
TrainCombined ==
  /\ ganPc = "combined"
  /\ gTrained' = gTrained + 1
  /\ batchIndex' = batchIndex + 1
  /\ ganPc' = "batches"
  /\ UNCHANGED <<ganArgs, epoch, epochBatches, dTrained, saves>>
  /\ UNCHANGED ganOthers

\* after the batches of an epoch: "await generator.save(saveURL)"
SaveGenerator ==
  /\ ganPc = "batches"
  /\ ~BatchesLeft(batchIndex,
                  NumBatches(ganArgs.numExamples, ganArgs.batchSize))
  /\ saves' = Append(saves, [epoch |-> epoch, dTrained |-> dTrained,
                             gTrained |-> gTrained])
  /\ epoch' = epoch + 1
  /\ ganPc' = "epochs"
  /\ UNCHANGED <<ganArgs, batchIndex, epochBatches, dTrained, gTrained>>
  /\ UNCHANGED ganOthers

\* the end of the epoch loop
RunEnd ==
  /\ ganPc = "epochs"
  /\ ~(epoch < ganArgs.epochs)
  /\ ganPc' = "finished"
  /\ UNCHANGED <<ganArgs, epoch, batchIndex, epochBatches, dTrained,
                 gTrained, saves>>
  /\ UNCHANGED ganOthers

NextGan ==
  EpochBegin \/ TrainDiscriminator \/ TrainCombined \/ SaveGenerator
    \/ RunEnd

SpecGan == InitGan /\ [][NextGan]_vars

\* ---- vocabulary of the properties ----
\* the least n with n * batchSize >= numExamples
CeilOfQuotient(numExamples, batchSize) ==
  CHOOSE n \in 0 .. numExamples :
    n * batchSize >= numExamples /\ (n - 1) * batchSize < numExamples

RECURSIVE SumOfSizes(_)
SumOfSizes(slices) ==
  IF slices = <<>> THEN 0
  ELSE slices[1].size + SumOfSizes(Tail(slices))

\* ---- C23 ----
\* C23: generator.save is called exactly once per epoch, after the last
\* batch of the epoch has trained both the discriminator and the combined
\* model and before any batch of the next epoch: the saves so far are one
\* per epoch ended, none is made while batches of an epoch are left, each
\* was made with all batches of its epoch trained on both models, and a
\* run of E epochs ends with E saves.
C23_SavesOncePerEpoch ==
  /\ Len(saves) = epoch
  /\ \A k \in 1 .. Len(saves) :
       /\ saves[k].epoch = k - 1
       /\ saves[k].dTrained =
            CeilOfQuotient(ganArgs.numExamples, ganArgs.batchSize)
       /\ saves[k].gTrained = saves[k].dTrained
  /\ ganPc \in {"batches", "combined"} =>
       /\ Len(saves) < ganArgs.epochs
       /\ dTrained <= CeilOfQuotient(ganArgs.numExamples, ganArgs.batchSize)
       /\ gTrained = batchIndex
  /\ ganPc = "finished" => Len(saves) = ganArgs.epochs

\* a run of two epochs of several batches each, finished
C23_Witness ==
  /\ ganPc = "finished"
  /\ ganArgs.epochs = 2
  /\ Len(saves) = 2
  /\ saves[2].dTrained >= 2

\* ---- C26 ----
\* C26: for N >= 1 examples and batchSize >= 1 the batches of an epoch
\* partition the examples: batch b starts at b * batchSize, its
\* actualBatchSize is between 1 and batchSize, offset + actualBatchSize
\* never exceeds N, and over the ceil(N / batchSize) batches of the epoch
\* the sizes sum to N.
C26_BatchesPartitionExamples ==
  /\ \A k \in 1 .. Len(epochBatches) :
       /\ epochBatches[k].offset = (k - 1) * ganArgs.batchSize
       /\ epochBatches[k].size \in 1 .. ganArgs.batchSize
       /\ epochBatches[k].offset + epochBatches[k].size
            <= ganArgs.numExamples
  /\ (ganPc = "epochs" /\ epoch > 0) =>
       /\ Len(epochBatches) =
            CeilOfQuotient(ganArgs.numExamples, ganArgs.batchSize)
       /\ SumOfSizes(epochBatches) = ganArgs.numExamples

\* an epoch of several batches whose last batch is not full
C26_Witness ==
  /\ ganPc = "epochs" /\ epoch > 0
  /\ Len(epochBatches) >= 2
  /\ epochBatches[Len(epochBatches)].size < ganArgs.batchSize
  /\ epochBatches[1].size = ganArgs.batchSize

(***************************************************************************)
(* Part 7: the object-detection training script (the second file of        *)
(* date-conversion-attention/model_test.js): loadTruncatedMobilenet and    *)
(* main.                                                                   *)
(*                                                                         *)
(* A layer name is the sequence of its pieces, so that "starts with" can   *)
(* be computed: conv_pw_10_bn is <<"conv_pw_", "1", "0", "_bn">>.  The     *)
(* truncated base is the sequence of the names of its layers; it ends with *)
(* the layer topLayerName, whose output is its output.  Layers are         *)
(* referred to by their position in the base.  The new head, the data and  *)
(* the weights are left out; a fit is the sequence of its epochs.          *)
(***************************************************************************)

\* ---- bounds of the model ----
\* the most layers of the truncated base
MaxBaseLayers == 3

\* ---- program constants ----
initialTransferEpochs == 50
fineTuningEpochs == 100

\* const topLayerGroupNames = ['conv_pw_10', 'conv_pw_11']
topLayerGroupNames == << <<"conv_pw_", "1", "0">>, <<"conv_pw_", "1", "1">> >>

\* `${topLayerGroupNames[topLayerGroupNames.length - 1]}_relu`
topLayerName == Append(topLayerGroupNames[Len(topLayerGroupNames)], "_relu")

\* names of layers below the top layer: conv_pw_1, conv_pw_10,
\* conv_pw_10_bn and conv_dw_11
LowerLayerNames ==
  { <<"conv_pw_", "1">>, <<"conv_pw_", "1", "0">>,
    <<"conv_pw_", "1", "0", "_bn">>, <<"conv_dw_", "1", "1">> }

\* name.indexOf(groupName) === 0
StartsWith(name, groupName) ==
  /\ Len(groupName) <= Len(name)
  /\ SubSeq(name, 1, Len(groupName)) = groupName

\* the inner loop of loadTruncatedMobilenet finds a group for the name
InTopGroup(name) ==
  \E n \in 1 .. Len(topLayerGroupNames) :
    StartsWith(name, topLayerGroupNames[n])

\* the truncated bases: layers with different names, the top layer last
TruncatedBases ==
  { Append(lower, topLayerName) :
      lower \in { q \in UNION { [1 .. n -> LowerLayerNames] :
                                  n \in 0 .. MaxBaseLayers - 1 } :
                    \A a, b \in 1 .. Len(q) : a # b => q[a] # q[b] } }

\* loadTruncatedMobilenet up to "for (const layer of truncatedBase.layers)":
\* the layers of a loaded model are trainable
InitDetection ==
  /\ baseLayers \in TruncatedBases
  /\ trainable = [k \in 1 .. Len(baseLayers) |-> TRUE]
  /\ fineTuningLayers = <<>>
  /\ detectionPc = "freeze"
  /\ layerCursor = 1
  /\ fitEpoch = 0
  /\ detectionLog = <<>>
  /\ IdleSnake /\ IdleReplay /\ IdleCart
  /\ IdleTrain /\ IdleFilters /\ IdleGan /\ IdleJena

detectionOthers == <<snakeVars, replayVars, cartVars, trainVars, filterVars,
                     ganVars, jenaVars>>

\* FrozenFlag that leaves the layers of the top groups trainable
FrozenFlagSparesTopGroups(name) == InTopGroup(name)

\* "layer.trainable = false"
FrozenFlag(name) == FALSE

\* one iteration of "for (const layer of truncatedBase.layers)"
FreezeLayer ==
  /\ detectionPc = "freeze"
  /\ layerCursor <= Len(baseLayers)
  /\ trainable' =
       [trainable EXCEPT ![layerCursor] = FrozenFlag(baseLayers[layerCursor])]
  /\ fineTuningLayers' =
       IF InTopGroup(baseLayers[layerCursor])
       THEN Append(fineTuningLayers, layerCursor)
       ELSE fineTuningLayers
  /\ layerCursor' = layerCursor + 1
  /\ UNCHANGED <<baseLayers, detectionPc, fitEpoch, detectionLog>>
  /\ UNCHANGED detectionOthers

\* tf.util.assert(fineTuningLayers.length > 1, ...)
AssertionHolds(layers) == Len(layers) > 1

\* the end of loadTruncatedMobilenet: the assertion throws, which ends the
\* script, or the layers are returned and main goes on to the first compile
LoadReturn ==
  /\ detectionPc = "freeze"
  /\ layerCursor > Len(baseLayers)
  /\ detectionPc' = IF AssertionHolds(fineTuningLayers) THEN "compile"
                    ELSE "assertionFailed"
  /\ UNCHANGED <<baseLayers, trainable, fineTuningLayers, layerCursor,
                 fitEpoch, detectionLog>>
  /\ UNCHANGED detectionOthers

\* the fits completed so far
FitsDone ==
  Cardinality({ n \in 1 .. Len(detectionLog) : detectionLog[n] = "fit" })

\* the epochs of the fit that comes next, or is under way
EpochsOfFit == IF FitsDone = 0 THEN initialTransferEpochs ELSE fineTuningEpochs

\* model.compile({loss: customLossFunction, optimizer: 'rmsprop'})
Compile ==
  /\ detectionPc = "compile"
  /\ detectionLog' = Append(detectionLog, "compile")
  /\ fitEpoch' = 0
  /\ detectionPc' = "fit"
  /\ UNCHANGED <<baseLayers, trainable, fineTuningLayers, layerCursor>>
  /\ UNCHANGED detectionOthers

\* an epoch of "await model.fit(images, targets, {epochs, ...})"
FitEpoch ==
  /\ detectionPc = "fit"
  /\ fitEpoch < EpochsOfFit
  /\ fitEpoch' = fitEpoch + 1
  /\ UNCHANGED <<baseLayers, trainable, fineTuningLayers, detectionPc,
                 layerCursor, detectionLog>>
  /\ UNCHANGED detectionOthers

\* the end of a fit: the first is followed by the unfreezing loop, the
\* second by the save
FitEnd ==
  /\ detectionPc = "fit"
  /\ ~(fitEpoch < EpochsOfFit)
  /\ detectionLog' = Append(detectionLog, "fit")
  /\ detectionPc' = IF FitsDone = 0 THEN "unfreeze" ELSE "save"
  /\ layerCursor' = 1
  /\ UNCHANGED <<baseLayers, trainable, fineTuningLayers, fitEpoch>>
  /\ UNCHANGED detectionOthers

\* one iteration of "for (const layer of fineTuningLayers)"
UnfreezeLayer ==
  /\ detectionPc = "unfreeze"
  /\ layerCursor <= Len(fineTuningLayers)
  /\ trainable' = [trainable EXCEPT ![fineTuningLayers[layerCursor]] = TRUE]
  /\ layerCursor' = layerCursor + 1
  /\ UNCHANGED <<baseLayers, fineTuningLayers, detectionPc, fitEpoch,
                 detectionLog>>
  /\ UNCHANGED detectionOthers

\* the end of the unfreezing loop
UnfreezeEnd ==
  /\ detectionPc = "unfreeze"
  /\ layerCursor > Len(fineTuningLayers)
  /\ detectionPc' = "compile"
  /\ UNCHANGED <<baseLayers, trainable, fineTuningLayers, layerCursor,
                 fitEpoch, detectionLog>>
  /\ UNCHANGED detectionOthers

\* await model.save(modelSaveURL)
SaveModel ==
  /\ detectionPc = "save"
  /\ detectionLog' = Append(detectionLog, "save")
  /\ detectionPc' = "done"
  /\ UNCHANGED <<baseLayers, trainable, fineTuningLayers, layerCursor,
                 fitEpoch>>
  /\ UNCHANGED detectionOthers

NextDetection ==
  FreezeLayer \/ LoadReturn \/ Compile \/ FitEpoch \/ FitEnd
    \/ UnfreezeLayer \/ UnfreezeEnd \/ SaveModel

SpecDetection == InitDetection /\ [][NextDetection]_vars

\* ---- vocabulary of the properties ----
\* the positions of the base layers whose name starts with a group name
MatchingLayers == { k \in 1 .. Len(baseLayers) : InTopGroup(baseLayers[k]) }

\* the layer at position k is one of fineTuningLayers
IsFineTuningLayer(k) ==
  \E n \in 1 .. Len(fineTuningLayers) : fineTuningLayers[n] = k

\* loadTruncatedMobilenet has returned
LoadReturned ==
  detectionPc \in {"compile", "fit", "unfreeze", "save", "done"}

\* ---- C27 ----
\* C27: every layer of the truncated base is non-trainable throughout the
\* initial transfer fit; the fine-tuning layers are set trainable only
\* after that fit has completed, and all of them before the second compile
\* and fit; every other base layer stays non-trainable; and the model is
\* saved only after both fits have completed.
C27_FreezeThenFineTune ==
  /\ (LoadReturned /\ FitsDone = 0) =>
       \A k \in 1 .. Len(baseLayers) : ~trainable[k]
  /\ LoadReturned =>
       \A k \in 1 .. Len(baseLayers) :
         trainable[k] => IsFineTuningLayer(k) /\ FitsDone >= 1
  /\ (FitsDone >= 1 /\ detectionPc \in {"compile", "fit", "save", "done"}) =>
       \A k \in 1 .. Len(baseLayers) : IsFineTuningLayer(k) <=> trainable[k]
  /\ (\E n \in 1 .. Len(detectionLog) : detectionLog[n] = "save") =>
       detectionLog = <<"compile", "fit", "compile", "fit", "save">>
  /\ detectionPc = "done" => detectionLog[Len(detectionLog)] = "save"

\* the script has run to its end on a base with layers of both kinds
C27_Witness ==
  /\ detectionPc = "done"
  /\ \E k \in 1 .. Len(baseLayers) : trainable[k]
  /\ \E k \in 1 .. Len(baseLayers) : ~trainable[k]

\* ---- C28 ----
\* C28: loadTruncatedMobilenet fails its assertion only when no layer of
\* the truncated base has a name starting with one of the
\* topLayerGroupNames; whenever at least one layer matches it returns, and
\* fineTuningLayers holds every matching layer exactly once.
C28_AssertionFailsOnlyWithoutMatch ==
  /\ detectionPc = "assertionFailed" => MatchingLayers = {}
  /\ (detectionPc # "freeze" /\ MatchingLayers # {}) =>
       /\ LoadReturned
       /\ \A k \in MatchingLayers :
            Cardinality({ n \in 1 .. Len(fineTuningLayers) :
                            fineTuningLayers[n] = k }) = 1
       /\ \A n \in 1 .. Len(fineTuningLayers) :
            fineTuningLayers[n] \in MatchingLayers

(***************************************************************************)
(* Part 8: JenaWeatherData.getColumnData (the Jena weather data object,    *)
(* unnamed/part_000).                                                      *)
(*                                                                         *)
(* The data object has numRows rows.  A call is given by whether its       *)
(* columnName is one of dataColumnNames and by its other arguments, each   *)
(* of beginIndex, length and stride being a number or left out             *)
(* (Undefined).  A value of the result is the row it was read from and     *)
(* what was done to it.  Indices and lengths are natural numbers and       *)
(* the stride is at least 1.                                               *)
(***************************************************************************)

\* ---- bounds of the model ----
\* the most rows of the data, and the largest beginIndex and length
MaxRows == 4
\* the largest stride
MaxStride == 2

\* a number argument, or none
Optional(numbers) == {Undefined} \cup numbers

\* the call getColumnData(columnName, includeTime, normalize, beginIndex,
\* length, stride) on loaded data
InitJena ==
  /\ numRows \in 0 .. MaxRows
  /\ columnArgs \in [knownColumn : BOOLEAN,
                     includeTime : BOOLEAN,
                     normalize : BOOLEAN,
                     beginIndex : Optional(0 .. MaxRows),
                     length : Optional(0 .. MaxRows),
                     stride : Optional(1 .. MaxStride)]
  /\ columnPc = "called"
  /\ rowCursor = 0
  /\ out = <<>>
  /\ rowsRead = <<>>
  /\ IdleSnake /\ IdleReplay /\ IdleCart
  /\ IdleTrain /\ IdleFilters /\ IdleGan /\ IdleDetection

jenaOthers == <<snakeVars, replayVars, cartVars, trainVars, filterVars,
                ganVars, detectionVars>>

\* beginIndex, length and stride after the "== null" tests
BeginIndexOf(args) == OrDefault(args.beginIndex, 0)
LengthOf(args, rows) == OrDefault(args.length, rows - BeginIndexOf(args))
StrideOf(args) == OrDefault(args.stride, 1)

\* the assertion on the column name, the defaults, and the loop variable
ColumnBegin ==
  /\ columnPc = "called"
  /\ IF columnArgs.knownColumn
     THEN /\ rowCursor' = BeginIndexOf(columnArgs)
          /\ columnPc' = "loop"
     ELSE /\ rowCursor' = rowCursor
          /\ columnPc' = "assertionFailed"
  /\ UNCHANGED <<numRows, columnArgs, out, rowsRead>>
  /\ UNCHANGED jenaOthers

\* "i < beginIndex + length && i < this.numRows"
RowsLeft(i, args, rows) ==
  /\ i < BeginIndexOf(args) + LengthOf(args, rows)
  /\ i < rows

\* NextRow that steps by one row
NextRowIgnoresStride(i, stride) == i + 1

\* "i += stride"
NextRow(i, stride) == i + stride

\* one iteration of the loop
ColumnStep ==
  /\ columnPc = "loop"
  /\ RowsLeft(rowCursor, columnArgs, numRows)
  /\ rowsRead' = Append(rowsRead, rowCursor)
  /\ out' = Append(out, [row |-> rowCursor,
                         normalized |-> columnArgs.normalize,
                         withTime |-> columnArgs.includeTime])
  /\ rowCursor' = NextRow(rowCursor, StrideOf(columnArgs))
  /\ UNCHANGED <<numRows, columnArgs, columnPc>>
  /\ UNCHANGED jenaOthers

\* the end of the loop and "return out"
ColumnReturn ==
  /\ columnPc = "loop"
  /\ ~RowsLeft(rowCursor, columnArgs, numRows)
  /\ columnPc' = "returned"
  /\ UNCHANGED <<numRows, columnArgs, rowCursor, out, rowsRead>>
  /\ UNCHANGED jenaOthers

NextJena == ColumnBegin \/ ColumnStep \/ ColumnReturn

\* the call runs on its own thread of control: it keeps taking steps
SpecJena == InitJena /\ [][NextJena]_vars /\ WF_vars(NextJena)

\* ---- vocabulary of the properties ----
\* the rows i = beginIndex + k * stride, k >= 0, below beginIndex + length
\* and below numRows, for the arguments as given or defaulted
RowsAskedFor ==
  LET b == IF columnArgs.beginIndex = Undefined THEN 0
           ELSE columnArgs.beginIndex
      n == IF columnArgs.length = Undefined THEN numRows - b
           ELSE columnArgs.length
      d == IF columnArgs.stride = Undefined THEN 1 ELSE columnArgs.stride
  IN  { i \in 0 .. numRows - 1 :
          /\ i < b + n
          /\ \E k \in 0 .. numRows : i = b + k * d }

\* ---- C29 ----
\* C29: for a known column the call returns, in increasing index order,
\* exactly one value for each row i = beginIndex + k * stride (k >= 0)
\* with i < beginIndex + length and i < numRows; with beginIndex, length
\* and stride left out these are all numRows rows; the call comes to an
\* end for every stride >= 1; and with an unknown column the assertion
\* fails before any row is read.
C29_ColumnDataRows ==
  /\ [](/\ \A k \in 1 .. Len(rowsRead) - 1 : rowsRead[k] < rowsRead[k + 1]
        /\ Len(out) = Len(rowsRead)
        /\ \A k \in 1 .. Len(out) : out[k].row = rowsRead[k]
        /\ columnPc = "returned" =>
             /\ columnArgs.knownColumn
             /\ { rowsRead[k] : k \in 1 .. Len(rowsRead) } = RowsAskedFor
             /\ (/\ columnArgs.beginIndex = Undefined
                 /\ columnArgs.length = Undefined
                 /\ columnArgs.stride = Undefined)
                  => rowsRead = [k \in 1 .. numRows |-> k - 1]
        /\ ~columnArgs.knownColumn =>
             /\ rowsRead = <<>>
             /\ columnPc \in {"called", "assertionFailed"})
  /\ <>(columnPc \in {"returned", "assertionFailed"})

\* a call with stride 2 that returned two rows or more and stopped at
\* beginIndex + length, before the last row of the data
C29_Witness ==
  /\ columnPc = "returned"
  /\ columnArgs.stride = 2
  /\ Len(out) >= 2
  /\ columnArgs.beginIndex # Undefined /\ columnArgs.length # Undefined
  /\ columnArgs.beginIndex + columnArgs.length < numRows
====
